---- MODULE Spec2Model ----
(***************************************************************************)
(* OpenClaw Activity Monitor daemon (src/src/index.js with the library     *)
(* src/unnamed/part_000).  The daemon is one Node.js process: main() runs  *)
(* an initial runHealthCheck, then registers a setInterval timer and the   *)
(* SIGTERM / SIGINT handlers.  Every `await` of an async function is a     *)
(* point where the event loop may run another callback, so every cycle     *)
(* (one call of runHealthCheck) and every signal handler has a position,   *)
(* and the code between two awaits is one atomic action.                   *)
(***************************************************************************)
EXTENDS Integers, Sequences, FiniteSets, TLC

(* ------------------------------ bounds --------------------------------- *)

\* Number of clock steps explored.
MaxAdvances == 6

\* Cycles (calls of runHealthCheck) explored.
MaxCycles == 3

\* Agent checks applied one after the other.
MaxChecks == 7

\* Largest number of seconds formatUptime is applied to (two days and more).
MaxUptime == 180000

\* Cycles of a long run in which ticks arrive while cycles are in progress,
\* and the number of cycles in progress together in such a run.
MaxBusyCycles == 7

MaxInFlight == 2

\* Cycles of a long run in which every cycle returns before the next tick:
\* more than the performance history holds.
MaxQuietCycles == 102

(* ------------------------- program constants --------------------------- *)

HealthCheckInterval == 30000

MaxFailures == 3

RestartCooldown == 10000

\* state.performance.maxHistory
MaxHistory == 100

\* Milliseconds the clock advances in one step: the cooldown, so that an
\* elapsed time below, equal to and above the cooldown all occur.
TimeStep == RestartCooldown

\* Last clock value explored.
MaxTime == MaxAdvances * TimeStep

\* A fifth of the cooldown: 2000 ms.
ShortSpacing == RestartCooldown \div 5

\* Times between two agent checks applied one after the other.
Spacings == {ShortSpacing, RestartCooldown}

\* CONFIG.agents as shipped, in configured order.
ConfiguredAgents == <<"main">>

\* CONFIG.agents with a second entry added.
TwoAgents == <<"main", "worker">>

Signals == {"SIGTERM", "SIGINT"}

Cycles == 1..MaxCycles

\* JavaScript null (an unset timestamp); timestamps are pairs, see ToISOString.
Null == <<>>

\* No formatUptime call has been made; no agent check has been applied; no
\* long run is followed.
NoFormat == <<>>

NoDecision == <<>>

NoRun == <<>>

\* CONFIG.maxFailures, healthCheckInterval and restartCooldown as shipped.
ShippedLimits ==
  [maxFailures |-> MaxFailures, healthCheckInterval |-> HealthCheckInterval,
   restartCooldown |-> RestartCooldown]

(* ------------------------------ state ---------------------------------- *)

VARIABLES
  now,            \* Date.now(), in ms since process start
  mode,           \* "running", "exit0" (process.exit(0)), "killed" (default signal
                  \* action), "exit1" (process.exit(1)) or "crashed" (unhandled rejection)
  mainpc,         \* position of main(): "load", "initial", "running", or "fatal"
                  \* (the catch handler of main() is writing its log line)
  timerActive,    \* setInterval(runHealthCheck, ...) has been called
  nextTick,       \* time at which the interval timer fires next
  handlersOn,     \* process.on('SIGTERM'/'SIGINT', ...) have been called
  started,        \* number of runHealthCheck calls made so far
  totalChecks,    \* state.totalChecks
  totalRestarts,  \* state.totalRestarts
  agents,         \* state.agents: agent name -> record
  cyc,            \* per call of runHealthCheck: its position and locals
  sig,            \* per signal: position of its handler and the snapshot being written
  disk,           \* CONFIG.stateFile: <<>> (no file) or <<snapshot>>
  invocations,    \* history: the restartAgent calls made, in order
  events,         \* history: per agent, the results recorded and restarts returned
  flightAtSignal, \* history: the cycles that were in flight when a signal arrived
  config,         \* CONFIG.agents: the agent list the process was started with
  audit,          \* the cycle that keeps the list of the commands it runs (0: none)
  fmt,            \* the last formatUptime call: its argument and its result
  decided,        \* history: the agent checks applied as one step each, in order
  limits,         \* CONFIG.maxFailures, healthCheckInterval and restartCooldown
  long            \* a long run of cycles, each reduced to its awaits (see RunBegin)

vars == <<now, mode, mainpc, timerActive, nextTick, handlersOn, started,
          totalChecks, totalRestarts, agents, cyc, sig, disk,
          invocations, events, flightAtSignal, config, audit, fmt, decided,
          limits, long>>

\* What no step of the daemon changes: the configuration read at start-up, and
\* the records kept by the steps that apply formatUptime or one whole agent
\* check on their own.
fixed == <<config, audit, fmt, decided, limits, long>>

\* CONFIG.agents, in configured order.
Agents == config

AgentNames == {Agents[i] : i \in 1..Len(Agents)}

(* ------------------------- pure helpers -------------------------------- *)

\* new Date().toISOString(): seconds and milliseconds of the instant.
ToISOString(t) == <<t \div 1000, t % 1000>>

\* new Date(iso).getTime()
GetTime(iso) == iso[1] * 1000 + iso[2]

\* Variant of formatUptime that leaves out a zero minutes part.
formatUptimeDropsZeroMinutes(seconds) ==
  LET days  == seconds \div 86400
      hours == (seconds % 86400) \div 3600
      mins  == (seconds % 3600) \div 60
      tail  == IF mins > 0 THEN " " \o ToString(mins) \o "m" ELSE ""
  IN  IF days > 0
      THEN ToString(days) \o "d " \o ToString(hours) \o "h" \o tail
      ELSE IF hours > 0
      THEN ToString(hours) \o "h" \o tail
      ELSE ToString(mins) \o "m"

\* formatUptime (part_000 L50-57), for a whole number of seconds.
formatUptime(seconds) ==
  LET days  == seconds \div 86400
      hours == (seconds % 86400) \div 3600
      mins  == (seconds % 3600) \div 60
  IN  IF days > 0
      THEN ToString(days) \o "d " \o ToString(hours) \o "h "
             \o ToString(mins) \o "m"
      ELSE IF hours > 0
      THEN ToString(hours) \o "h " \o ToString(mins) \o "m"
      ELSE ToString(mins) \o "m"

\* What awaiting execAsync(command, {timeout}) can give: the promise resolves
\* with the command's output, or it rejects because the command could not be
\* run ("error"), ended with a non-zero exit status ("exit") or was killed at
\* the timeout ("timeout").  An output is its sequence of words.
ExecFailures == {"error", "exit", "timeout"}

Rejected(why) == [status |-> why, stdout |-> <<>>]

Resolved(text) == [status |-> "ok", stdout |-> text]

Stdouts ==
  { <<"Gateway", "is", "running">>, <<"Gateway", "is", "not", "running">>, <<>> }

ExecResults ==
  {Rejected(why) : why \in ExecFailures} \cup {Resolved(text) : text \in Stdouts}

\* String.prototype.includes, on word sequences.
Includes(text, phrase) ==
  \E i \in 1..(Len(text) - Len(phrase) + 1) :
    SubSeq(text, i, i + Len(phrase) - 1) = phrase

\* checkGateway: the try block around `openclaw gateway status` turns every
\* rejection into false.
checkGateway(res) ==
  IF res.status # "ok" THEN FALSE
  ELSE \/ Includes(res.stdout, <<"running">>)
       \/ Includes(res.stdout, <<"Gateway", "is", "running">>)

\* Variant of checkAgentHealth that takes a timed-out command for a healthy
\* agent.
checkAgentHealthTimeoutHealthy(res) ==
  IF res.status = "timeout" THEN [healthy |-> TRUE, error |-> "none"]
  ELSE IF res.status # "ok" THEN [healthy |-> FALSE, error |-> res.status]
  ELSE [healthy |-> /\ Includes(res.stdout, <<"Gateway">>)
                    /\ ~Includes(res.stdout, <<"not", "running">>),
        error |-> "none"]

\* checkAgentHealth: the try block around `openclaw status` turns every
\* rejection into an unhealthy result that carries the error; an output is
\* healthy when it mentions the gateway and not 'not running'.
checkAgentHealth(res) ==
  IF res.status # "ok" THEN [healthy |-> FALSE, error |-> res.status]
  ELSE [healthy |-> /\ Includes(res.stdout, <<"Gateway">>)
                    /\ ~Includes(res.stdout, <<"not", "running">>),
        error |-> "none"]

\* initAgentState: the record a name gets at first reference.
NewAgent ==
  [consecutiveFailures |-> 0, totalChecks |-> 0, totalFailures |-> 0,
   lastRestart |-> Null]

\* Variant of initAgentState that hands out a fresh record at every call.
initAgentStateAlwaysFresh(ags, name) ==
  [a \in DOMAIN ags \cup {name} |-> IF a = name THEN NewAgent ELSE ags[a]]

\* initAgentState(name): create the record only when the name has none.
initAgentState(ags, name) ==
  IF name \in DOMAIN ags THEN ags ELSE (ags @@ (name :> NewAgent))

\* Locals of a call of runHealthCheck that has not been made yet.
\* pc is the await the call is suspended at; idx the loop index; failures the
\* count handed to the failure log line (L121); restarted the result of the
\* last restartAgent (L133); write the snapshot saveState is writing; calls
\* the commands the call has run so far (kept for the audited cycle only).
IdleCycle ==
  [pc |-> "idle", idx |-> 0, failures |-> 0, restarted |-> "unset",
   write |-> <<>>, calls |-> <<>>]

\* A call that has returned: its locals are gone.
DoneCycle == [IdleCycle EXCEPT !.pc = "done"]

InFlight(c) == cyc[c].pc \notin {"idle", "done"}

\* saveState's stateData, built before the write is awaited.
Snapshot ==
  [totalChecks |-> totalChecks, totalRestarts |-> totalRestarts, agents |-> agents]

\* A state file whose content was cut off and is not JSON any more.
Truncated == [raw |-> "{ totalChecks: 2,"]

\* JSON.parse of a state file gives the saved object exactly when the file
\* exists and holds a whole snapshot; otherwise readFile or JSON.parse throws.
Parses(file) == file # <<>> /\ "totalChecks" \in DOMAIN file[1]

\* One command run by a cycle: the command line, the agent it was run for
\* ("-" when for none) and whether its promise resolved ("ok") or rejected
\* ("failed").
Call(cmd, a, st) ==
  [cmd |-> cmd, agent |-> a, status |-> IF st = "ok" THEN "ok" ELSE "failed"]

\* The locals loc of cycle c with the commands cs added to its list.
Track(c, loc, cs) == IF audit = c THEN [loc EXCEPT !.calls = @ \o cs] ELSE loc

\* The ways startGateway can run: whether `openclaw gateway start` resolved
\* and, when it did, whether the checkGateway that follows found the gateway.
StartRuns == {run \in [started : BOOLEAN, up : BOOLEAN] : run.up => run.started}

\* startGateway: its result and the commands it runs.  A rejected start
\* command is caught and gives false without a status check.
startGateway(run) ==
  [result |-> run.started /\ run.up,
   calls  |-> <<Call("openclaw gateway start", "-",
                     IF run.started THEN "ok" ELSE "failed")>>
              \o (IF run.started
                  THEN <<Call("openclaw gateway status", "-",
                              IF run.up THEN "ok" ELSE "failed")>>
                  ELSE <<>>)]

\* The ways restartAgent can run: whether its checkGateway found the gateway,
\* how the startGateway it calls otherwise ran (not at all when the gateway
\* was found), and whether `openclaw gateway restart` resolved.
RestartRuns ==
  {run \in [gatewayUp : BOOLEAN, start : StartRuns, restarted : BOOLEAN] :
     run.gatewayUp => ~run.start.started}

\* restartAgent: its result and the commands it runs.  The result of the
\* nested startGateway is not looked at; the restart command is run in every
\* case and its rejection is caught and gives false.
restartAgent(run) ==
  [result |-> run.restarted,
   calls  |-> <<Call("openclaw gateway status", "-",
                     IF run.gatewayUp THEN "ok" ELSE "failed")>>
              \o (IF run.gatewayUp THEN <<>> ELSE startGateway(run.start).calls)
              \o <<Call("openclaw gateway restart", "-",
                        IF run.restarted THEN "ok" ELSE "failed")>>]

(* ----------------- the restart decision (runHealthCheck) ---------------- *)

\* Variant of RecordHealthy that forgets the reset.
RecordHealthyKeepsCount(rec) == rec

\* L114-116: a healthy result resets the consecutive-failure count.
RecordHealthy(rec) == [rec EXCEPT !.consecutiveFailures = 0]

\* Variant of RecordUnhealthy that counts the failure in the run only.
RecordUnhealthyRunOnly(rec) == [rec EXCEPT !.consecutiveFailures = @ + 1]

\* L118-119: an unhealthy result counts one more failure.
RecordUnhealthy(rec) ==
  [rec EXCEPT !.consecutiveFailures = @ + 1, !.totalFailures = @ + 1]

\* L126-130: timeSinceLastRestart > CONFIG.restartCooldown, where an unset
\* lastRestart gives Infinity.
CooldownElapsed(rec, t) ==
  \/ rec.lastRestart = Null
  \/ t - GetTime(rec.lastRestart) > RestartCooldown

\* L125-130: the two nested tests that lead to restartAgent.
ShouldRestart(rec, t) ==
  /\ rec.consecutiveFailures >= MaxFailures
  /\ CooldownElapsed(rec, t)

\* Variant of OnRestartReturned that resets only after a successful restart.
OnRestartReturnedIfSucceeded(rec, restarted, t) ==
  IF restarted
  THEN [rec EXCEPT !.lastRestart = ToISOString(t), !.consecutiveFailures = 0]
  ELSE rec

\* Variant of OnRestartReturned that keeps the failure count.
OnRestartReturnedKeepsCount(rec, restarted, t) ==
  [rec EXCEPT !.lastRestart = ToISOString(t)]

\* L134-135: the bookkeeping once restartAgent has returned; `restarted`
\* (its result) only decides whether a line is logged.
OnRestartReturned(rec, restarted, t) ==
  [rec EXCEPT !.lastRestart = ToISOString(t), !.consecutiveFailures = 0]

\* Variant of Decision that tests the cooldown before the threshold.
DecisionCooldownFirst(rec, t) ==
  IF ~CooldownElapsed(rec, t) THEN "SkipCooldown"
  ELSE IF rec.consecutiveFailures >= MaxFailures THEN "Restart"
  ELSE "NoAction"

\* Variant of Decision that leaves out the cooldown test.
DecisionWithoutCooldown(rec, t) ==
  IF rec.consecutiveFailures < MaxFailures THEN "NoAction" ELSE "Restart"

\* L125-131: the branch an unhealthy check takes once its failure is counted:
\* under the threshold nothing is done ("NoAction"); at the threshold the
\* cooldown is tested and either nothing is done ("SkipCooldown") or
\* restartAgent is called ("Restart").
Decision(rec, t) ==
  IF rec.consecutiveFailures < MaxFailures THEN "NoAction"
  ELSE IF CooldownElapsed(rec, t) THEN "Restart"
  ELSE "SkipCooldown"

\* L145: repositories are refreshed when state.totalChecks % 5 === 1.
RepoCycle(n) == n % 5 = 1

(* --------------------------- runHealthCheck ----------------------------- *)

\* L80-83: a call of runHealthCheck runs up to its first await.
BeginCycle(c) ==
  /\ started' = c
  /\ totalChecks' = totalChecks + 1
  /\ cyc' = [cyc EXCEPT ![c] = [IdleCycle EXCEPT !.pc = "perf"]]

\* Variant of LoopFrom that walks CONFIG.agents from its last entry.
LoopFromLastFirst(c, i, ags, loc) ==
  IF i <= Len(Agents)
  THEN /\ agents' = [initAgentState(ags, Agents[Len(Agents) + 1 - i]) EXCEPT
                       ![Agents[Len(Agents) + 1 - i]].totalChecks = @ + 1]
       /\ cyc' = [cyc EXCEPT ![c] =
                    [loc EXCEPT !.pc = "probe", !.idx = Len(Agents) + 1 - i]]
  ELSE /\ agents' = ags
       /\ cyc' = [cyc EXCEPT ![c] =
                    [loc EXCEPT !.pc = IF RepoCycle(totalChecks)
                                       THEN "repos" ELSE "activity"]]

\* L107-112 and L144-153: from the top of the agent loop at index i, with the
\* agent map ags and the cycle's locals loc, up to the next await: either the
\* next agent's record is fetched, counted and its probe started, or the loop
\* is over and the repository test is made.
LoopFrom(c, i, ags, loc) ==
  IF i <= Len(Agents)
  THEN /\ agents' = [initAgentState(ags, Agents[i]) EXCEPT
                       ![Agents[i]].totalChecks = @ + 1]
       /\ cyc' = [cyc EXCEPT ![c] =
                    [loc EXCEPT !.pc = "probe", !.idx = i]]
  ELSE /\ agents' = ags
       /\ cyc' = [cyc EXCEPT ![c] =
                    [loc EXCEPT !.pc = IF RepoCycle(totalChecks)
                                       THEN "repos" ELSE "activity"]]

\* L86-98: getSystemPerformance has returned; the sample is stored, alerts are
\* logged and checkGateway is started.
PerfDone(c) ==
  /\ mode = "running" /\ cyc[c].pc = "perf"
  /\ cyc' = [cyc EXCEPT ![c].pc = "gateway"]
  /\ UNCHANGED <<now, mode, mainpc, timerActive, nextTick, handlersOn, started,
                 totalChecks, totalRestarts, agents, sig, disk, invocations,
                 events, flightAtSignal>>
  /\ UNCHANGED fixed

\* L98-101: `openclaw gateway status` has ended with res and checkGateway has
\* returned; when unhealthy startGateway is awaited, otherwise the agent loop
\* begins.
GatewayDone(c, res) ==
  /\ mode = "running" /\ cyc[c].pc = "gateway"
  /\ LET loc == Track(c, cyc[c], <<Call("openclaw gateway status", "-", res.status)>>) IN
     IF checkGateway(res)
     THEN LoopFrom(c, 1, agents, loc)
     ELSE /\ cyc' = [cyc EXCEPT ![c] = [loc EXCEPT !.pc = "startgw"]]
          /\ UNCHANGED agents
  /\ UNCHANGED <<now, mode, mainpc, timerActive, nextTick, handlersOn, started,
                 totalChecks, totalRestarts, sig, disk, invocations, events,
                 flightAtSignal>>
  /\ UNCHANGED fixed

\* L101-107: startGateway has run as `run` and returned; when it failed the
\* error line is logged (awaited), otherwise the agent loop begins.
StartGatewayDone(c, run) ==
  /\ mode = "running" /\ cyc[c].pc = "startgw"
  /\ LET loc == Track(c, cyc[c], startGateway(run).calls) IN
     IF startGateway(run).result
     THEN LoopFrom(c, 1, agents, loc)
     ELSE /\ cyc' = [cyc EXCEPT ![c] = [loc EXCEPT !.pc = "gwfailed"]]
          /\ UNCHANGED agents
  /\ UNCHANGED <<now, mode, mainpc, timerActive, nextTick, handlersOn, started,
                 totalChecks, totalRestarts, sig, disk, invocations, events,
                 flightAtSignal>>
  /\ UNCHANGED fixed

\* L103-107: 'Failed to start gateway, will retry next cycle' is logged and
\* the function goes on to the agent loop.
GatewayFailureLogged(c) ==
  /\ mode = "running" /\ cyc[c].pc = "gwfailed"
  /\ LoopFrom(c, 1, agents, cyc[c])
  /\ UNCHANGED <<now, mode, mainpc, timerActive, nextTick, handlersOn, started,
                 totalChecks, totalRestarts, sig, disk, invocations, events,
                 flightAtSignal>>
  /\ UNCHANGED fixed

\* L112-123: `openclaw status` has ended with res and checkAgentHealth has
\* returned; a healthy result is recorded and the loop goes on, an unhealthy
\* one is recorded and its log line awaited.
ProbeDone(c, res) ==
  /\ mode = "running" /\ cyc[c].pc = "probe"
  /\ LET a == Agents[cyc[c].idx]
         health == checkAgentHealth(res)
         probed == <<Call("openclaw status", a, res.status)>> IN
     IF health.healthy
     THEN /\ LoopFrom(c, cyc[c].idx + 1,
                      [agents EXCEPT ![a] = RecordHealthy(@)],
                      Track(c, cyc[c], probed))
          /\ events' = [events EXCEPT ![a] = Append(@, "H")]
     ELSE /\ agents' = [agents EXCEPT ![a] = RecordUnhealthy(@)]
          /\ cyc' = [cyc EXCEPT ![c] =
                       [Track(c, @, probed) EXCEPT
                          !.pc = "decide",
                          !.failures = agents'[a].consecutiveFailures]]
          /\ events' = [events EXCEPT ![a] = Append(@, "U")]
  /\ UNCHANGED <<now, mode, mainpc, timerActive, nextTick, handlersOn, started,
                 totalChecks, totalRestarts, sig, disk, invocations,
                 flightAtSignal>>
  /\ UNCHANGED fixed

\* L125-131: the failure log line is written; the threshold and the cooldown
\* are tested on the record as it is now, and either the restart is announced
\* (another awaited log line) or the loop goes on.
Decide(c) ==
  /\ mode = "running" /\ cyc[c].pc = "decide"
  /\ LET a == Agents[cyc[c].idx] IN
     IF ShouldRestart(agents[a], now)
     THEN /\ cyc' = [cyc EXCEPT ![c] = [@ EXCEPT !.pc = "announce", !.failures = 0]]
          /\ UNCHANGED agents
     ELSE LoopFrom(c, cyc[c].idx + 1, agents, [cyc[c] EXCEPT !.failures = 0])
  /\ UNCHANGED <<now, mode, mainpc, timerActive, nextTick, handlersOn, started,
                 totalChecks, totalRestarts, sig, disk, invocations, events,
                 flightAtSignal>>
  /\ UNCHANGED fixed

\* Variant of InvokeRestart that calls restartAgent without counting it.
InvokeRestartUncounted(c) ==
  /\ mode = "running" /\ cyc[c].pc = "announce"
  /\ invocations' = Append(invocations,
                           [agent |-> Agents[cyc[c].idx], cycle |-> c, at |-> now])
  /\ cyc' = [cyc EXCEPT ![c].pc = "restart"]
  /\ UNCHANGED <<now, mode, mainpc, timerActive, nextTick, handlersOn, started,
                 totalChecks, totalRestarts, agents, sig, disk, events,
                 flightAtSignal>>
  /\ UNCHANGED fixed

\* L132-133: state.totalRestarts++ and restartAgent is called.
InvokeRestart(c) ==
  /\ mode = "running" /\ cyc[c].pc = "announce"
  /\ totalRestarts' = totalRestarts + 1
  /\ invocations' = Append(invocations,
                           [agent |-> Agents[cyc[c].idx], cycle |-> c, at |-> now])
  /\ cyc' = [cyc EXCEPT ![c].pc = "restart"]
  /\ UNCHANGED <<now, mode, mainpc, timerActive, nextTick, handlersOn, started,
                 totalChecks, agents, sig, disk, events, flightAtSignal>>
  /\ UNCHANGED fixed

\* L133-142: restartAgent has run as `run` and returned; the bookkeeping is
\* applied and the loop goes on.
RestartDone(c, run) ==
  /\ mode = "running" /\ cyc[c].pc = "restart"
  /\ LET a == Agents[cyc[c].idx]
         ok == restartAgent(run).result IN
     /\ LoopFrom(c, cyc[c].idx + 1,
                 [agents EXCEPT ![a] = OnRestartReturned(@, ok, now)],
                 [Track(c, cyc[c], restartAgent(run).calls) EXCEPT
                    !.restarted = IF ok THEN "true" ELSE "false"])
     /\ events' = [events EXCEPT ![a] = Append(@, "R")]
  /\ UNCHANGED <<now, mode, mainpc, timerActive, nextTick, handlersOn, started,
                 totalChecks, totalRestarts, sig, disk, invocations,
                 flightAtSignal>>
  /\ UNCHANGED fixed

\* L146-153: getAllRepoStatuses has returned and getAgentActivity is started.
ReposDone(c) ==
  /\ mode = "running" /\ cyc[c].pc = "repos"
  /\ cyc' = [cyc EXCEPT ![c].pc = "activity"]
  /\ UNCHANGED <<now, mode, mainpc, timerActive, nextTick, handlersOn, started,
                 totalChecks, totalRestarts, agents, sig, disk, invocations,
                 events, flightAtSignal>>
  /\ UNCHANGED fixed

\* Variant of ActivityDone whose snapshot leaves the agent records out.
ActivityDoneOmitsAgents(c) ==
  /\ mode = "running" /\ cyc[c].pc = "activity"
  /\ cyc' = [cyc EXCEPT ![c] =
               [@ EXCEPT !.pc = "save",
                         !.write = <<[Snapshot EXCEPT !.agents = <<>>]>>]]
  /\ UNCHANGED <<now, mode, mainpc, timerActive, nextTick, handlersOn, started,
                 totalChecks, totalRestarts, agents, sig, disk, invocations,
                 events, flightAtSignal>>
  /\ UNCHANGED fixed

\* L153-157 and L160-175: getAgentActivity has returned; saveState builds its
\* snapshot and starts the write.
ActivityDone(c) ==
  /\ mode = "running" /\ cyc[c].pc = "activity"
  /\ cyc' = [cyc EXCEPT ![c] = [@ EXCEPT !.pc = "save", !.write = <<Snapshot>>]]
  /\ UNCHANGED <<now, mode, mainpc, timerActive, nextTick, handlersOn, started,
                 totalChecks, totalRestarts, agents, sig, disk, invocations,
                 events, flightAtSignal>>
  /\ UNCHANGED fixed

\* Variant of SaveDone in which a failed write is not swallowed: the
\* rejection leaves runHealthCheck and ends the process.
SaveDoneFailureFatal(c, ok) ==
  /\ mode = "running" /\ cyc[c].pc = "save"
  /\ disk' = IF ok THEN cyc[c].write ELSE disk
  /\ mode' = IF ok THEN mode ELSE "exit1"
  /\ cyc' = [cyc EXCEPT ![c] = DoneCycle]
  /\ IF mainpc = "initial"
     THEN /\ mainpc' = "running"
          /\ timerActive' = TRUE
          /\ nextTick' = now + HealthCheckInterval
          /\ handlersOn' = TRUE
     ELSE UNCHANGED <<mainpc, timerActive, nextTick, handlersOn>>
  /\ UNCHANGED <<now, started, totalChecks, totalRestarts, agents, sig,
                 invocations, events, flightAtSignal>>
  /\ UNCHANGED fixed

\* L174-176, L158: the write has ended (ok: the file now holds the snapshot;
\* otherwise the error is swallowed) and runHealthCheck returns.  When this is
\* the initial call, main resumes (L305-321): the interval timer and the two
\* signal handlers are registered.
SaveDone(c, ok) ==
  /\ mode = "running" /\ cyc[c].pc = "save"
  /\ disk' = IF ok THEN cyc[c].write ELSE disk
  /\ cyc' = [cyc EXCEPT ![c] = DoneCycle]
  /\ IF mainpc = "initial"
     THEN /\ mainpc' = "running"
          /\ timerActive' = TRUE
          /\ nextTick' = now + HealthCheckInterval
          /\ handlersOn' = TRUE
     ELSE UNCHANGED <<mainpc, timerActive, nextTick, handlersOn>>
  /\ UNCHANGED <<now, mode, started, totalChecks, totalRestarts, agents, sig,
                 invocations, events, flightAtSignal>>
  /\ UNCHANGED fixed

\* L86 with part_000 L72-112: getSystemPerformance reads os.cpus(),
\* os.loadavg(), os.uptime() and os.hostname() outside any try block, so a
\* system error raised by one of them rejects its promise; runHealthCheck has
\* no try block either, so the call of runHealthCheck rejects too.
\*  - L299-302, L333-336: the initial call is awaited by main(), whose catch
\*    handler logs 'Fatal error' and then calls process.exit(1); the timer
\*    and the signal handlers are never registered.
\*  - L308: a call made by the timer has no handler for the rejection; what
\*    the runtime does with an unhandled rejection depends on its version
\*    and flags (crash: the process is ended; otherwise a warning is printed
\*    and the process goes on).
PerfThrows(c, crash) ==
  /\ mode = "running" /\ cyc[c].pc = "perf"
  /\ cyc' = [cyc EXCEPT ![c] = DoneCycle]
  /\ IF mainpc = "initial"
     THEN /\ mainpc' = "fatal"
          /\ UNCHANGED mode
     ELSE /\ mode' = IF crash THEN "crashed" ELSE mode
          /\ UNCHANGED mainpc
  /\ UNCHANGED <<now, timerActive, nextTick, handlersOn, started, totalChecks,
                 totalRestarts, agents, sig, disk, invocations, events,
                 flightAtSignal>>
  /\ UNCHANGED fixed

(* -------------------------------- main ---------------------------------- *)

\* L333-336: the 'Fatal error' line is written and process.exit(1) runs.
FatalLogged ==
  /\ mode = "running" /\ mainpc = "fatal"
  /\ mode' = "exit1"
  /\ UNCHANGED <<now, mainpc, timerActive, nextTick, handlersOn, started,
                 totalChecks, totalRestarts, agents, cyc, sig, disk,
                 invocations, events, flightAtSignal>>
  /\ UNCHANGED fixed

\* Variant of LoadDone in which loadState takes the counters and the agent
\* records of the previous run from a readable state file.
LoadDoneRehydrates ==
  /\ mode = "running" /\ mainpc = "load"
  /\ mainpc' = "initial"
  /\ started' = 1
  /\ cyc' = [cyc EXCEPT ![1] = [IdleCycle EXCEPT !.pc = "perf"]]
  /\ IF Parses(disk)
     THEN /\ totalChecks' = disk[1].totalChecks + 1
          /\ totalRestarts' = disk[1].totalRestarts
          /\ agents' = disk[1].agents
     ELSE /\ totalChecks' = totalChecks + 1
          /\ UNCHANGED <<totalRestarts, agents>>
  /\ UNCHANGED <<now, mode, timerActive, nextTick, handlersOn, sig, disk,
                 invocations, events, flightAtSignal>>
  /\ UNCHANGED fixed

\* L292-302 and L179-188: the start-up line is logged, loadState has read the
\* file (or failed to read or to parse it) and logged which; it assigns
\* nothing.  The initial runHealthCheck is called.
LoadDone ==
  /\ mode = "running" /\ mainpc = "load"
  /\ mainpc' = "initial"
  /\ BeginCycle(1)
  /\ UNCHANGED <<now, mode, timerActive, nextTick, handlersOn, totalRestarts,
                 agents, sig, disk, invocations, events, flightAtSignal>>
  /\ UNCHANGED fixed

\* L308: the interval timer fires and calls runHealthCheck.
Tick ==
  /\ mode = "running" /\ timerActive
  /\ now >= nextTick
  /\ started < MaxCycles
  /\ nextTick' = nextTick + HealthCheckInterval
  /\ BeginCycle(started + 1)
  /\ UNCHANGED <<now, mode, mainpc, timerActive, handlersOn, totalRestarts,
                 agents, sig, disk, invocations, events, flightAtSignal>>
  /\ UNCHANGED fixed

\* L311-321: a signal arrives.  Before the handlers are registered the default
\* action ends the process at once; afterwards the handler starts and awaits
\* its log line.
Signal(s) ==
  /\ mode = "running"
  /\ \A r \in Signals : sig[r].pc = "idle"
  /\ flightAtSignal' = flightAtSignal \cup {c \in Cycles : InFlight(c)}
  /\ IF handlersOn
     THEN /\ sig' = [sig EXCEPT ![s].pc = "log"]
          /\ UNCHANGED mode
     ELSE /\ mode' = "killed"
          /\ UNCHANGED sig
  /\ UNCHANGED <<now, mainpc, timerActive, nextTick, handlersOn, started,
                 totalChecks, totalRestarts, agents, cyc, disk, invocations,
                 events>>
  /\ UNCHANGED fixed

\* L312-313 / L318-319: the handler's log line is written and saveState builds
\* its snapshot and starts the write.
HandlerLogDone(s) ==
  /\ mode = "running" /\ sig[s].pc = "log"
  /\ sig' = [sig EXCEPT ![s] = [pc |-> "save", write |-> <<Snapshot>>]]
  /\ UNCHANGED <<now, mode, mainpc, timerActive, nextTick, handlersOn, started,
                 totalChecks, totalRestarts, agents, cyc, disk, invocations,
                 events, flightAtSignal>>
  /\ UNCHANGED fixed

\* L313-314 / L319-320: the handler's write has ended and process.exit(0) runs.
HandlerSaveDone(s, ok) ==
  /\ mode = "running" /\ sig[s].pc = "save"
  /\ disk' = IF ok THEN sig[s].write ELSE disk
  /\ mode' = "exit0"
  /\ sig' = [sig EXCEPT ![s].pc = "exited"]
  /\ UNCHANGED <<now, mainpc, timerActive, nextTick, handlersOn, started,
                 totalChecks, totalRestarts, agents, cyc, invocations, events,
                 flightAtSignal>>
  /\ UNCHANGED fixed

\* Time passes.  A due timer fires before more time passes.
Advance ==
  /\ mode = "running"
  /\ now + TimeStep <= MaxTime
  /\ timerActive => now < nextTick
  /\ now' = now + TimeStep
  /\ UNCHANGED <<mode, mainpc, timerActive, nextTick, handlersOn, started,
                 totalChecks, totalRestarts, agents, cyc, sig, disk,
                 invocations, events, flightAtSignal>>
  /\ UNCHANGED fixed

(* ---------------------------- specification ----------------------------- *)

\* A state file left by an earlier run of the daemon that was stopped after
\* two unhealthy checks of "main".
PriorSnapshot ==
  [totalChecks |-> 2, totalRestarts |-> 0,
   agents |-> ("main" :> [NewAgent EXCEPT !.consecutiveFailures = 2,
                                           !.totalChecks = 2,
                                           !.totalFailures = 2])]

\* L27-42 and process start, for the agent list cfg, the state file `file`
\* and the limits lim of CONFIG: nothing checked, no agent record.
Start(cfg, aud, file, lim, lng) ==
  /\ config = cfg
  /\ audit = aud
  /\ now = 0
  /\ mode = "running"
  /\ mainpc = "load"
  /\ timerActive = FALSE
  /\ nextTick = 0
  /\ handlersOn = FALSE
  /\ started = 0
  /\ totalChecks = 0
  /\ totalRestarts = 0
  /\ agents = <<>>
  /\ cyc = [c \in Cycles |-> IdleCycle]
  /\ sig = [s \in Signals |-> [pc |-> "idle", write |-> <<>>]]
  /\ disk = file
  /\ invocations = <<>>
  /\ events = [a \in AgentNames |-> <<>>]
  /\ flightAtSignal = {}
  /\ fmt = NoFormat
  /\ decided = NoDecision
  /\ limits = lim
  /\ long = lng

\* Process start with CONFIG's limits as shipped.
Boot(cfg, aud, file) == Start(cfg, aud, file, ShippedLimits, NoRun)

\* The daemon as shipped, started where no state file exists.
Init == Boot(ConfiguredAgents, 0, <<>>)

Next ==
  \/ LoadDone
  \/ Tick
  \/ Advance
  \/ \E c \in Cycles : PerfDone(c)
  \/ \E c \in Cycles, res \in ExecResults : GatewayDone(c, res)
  \/ \E c \in Cycles, run \in StartRuns : StartGatewayDone(c, run)
  \/ \E c \in Cycles : GatewayFailureLogged(c)
  \/ \E c \in Cycles, res \in ExecResults : ProbeDone(c, res)
  \/ \E c \in Cycles : Decide(c)
  \/ \E c \in Cycles : InvokeRestart(c)
  \/ \E c \in Cycles, run \in RestartRuns : RestartDone(c, run)
  \/ \E c \in Cycles : ReposDone(c)
  \/ \E c \in Cycles : ActivityDone(c)
  \/ \E c \in Cycles, ok \in BOOLEAN : SaveDone(c, ok)
  \/ \E s \in Signals : Signal(s)
  \/ \E s \in Signals : HandlerLogDone(s)
  \/ \E s \in Signals, ok \in BOOLEAN : HandlerSaveDone(s, ok)

Spec == Init /\ [][Next]_vars

\* The daemon while no signal arrives.
NextQuiet ==
  \/ LoadDone
  \/ Tick
  \/ Advance
  \/ \E c \in Cycles : PerfDone(c)
  \/ \E c \in Cycles, res \in ExecResults : GatewayDone(c, res)
  \/ \E c \in Cycles, run \in StartRuns : StartGatewayDone(c, run)
  \/ \E c \in Cycles : GatewayFailureLogged(c)
  \/ \E c \in Cycles, res \in ExecResults : ProbeDone(c, res)
  \/ \E c \in Cycles : Decide(c)
  \/ \E c \in Cycles : InvokeRestart(c)
  \/ \E c \in Cycles, run \in RestartRuns : RestartDone(c, run)
  \/ \E c \in Cycles : ReposDone(c)
  \/ \E c \in Cycles : ActivityDone(c)
  \/ \E c \in Cycles, ok \in BOOLEAN : SaveDone(c, ok)

\* The daemon as shipped, started with or without a state file, while no
\* signal arrives, one of its cycles keeping the list of the commands it runs.
InitAudit ==
  \E c \in Cycles, file \in {<<>>, <<PriorSnapshot>>, <<Truncated>>} :
    Boot(ConfiguredAgents, c, file)

SpecAudit == InitAudit /\ [][NextQuiet]_vars

\* L108-141: one pass of the agent loop for agent a, dt ms after the previous
\* one, run with no other callback in between: the probe command ends with
\* res and, when the restart is decided, restartAgent runs as `run`.  Each
\* check is added to `decided` with its time, its result and its branch.
AgentCheck(a, res, run, dt) ==
  /\ mode = "running" /\ Len(decided) < MaxChecks
  /\ now' = now + dt
  /\ LET counted == [initAgentState(agents, a) EXCEPT ![a].totalChecks = @ + 1]
         health  == checkAgentHealth(res)
         failed  == RecordUnhealthy(counted[a])
         branch  == Decision(failed, now')
     IN  IF health.healthy
         THEN /\ agents' = [counted EXCEPT ![a] = RecordHealthy(@)]
              /\ events' = [events EXCEPT ![a] = Append(@, "H")]
              /\ decided' = Append(decided, [at |-> now', healthy |-> TRUE,
                                             decision |-> "NoAction"])
              /\ UNCHANGED <<totalRestarts, invocations>>
         ELSE /\ decided' = Append(decided, [at |-> now', healthy |-> FALSE,
                                             decision |-> branch])
              /\ IF branch = "Restart"
                 THEN /\ totalRestarts' = totalRestarts + 1
                      /\ invocations' =
                           Append(invocations,
                                  [agent |-> a, cycle |-> Len(decided) + 1,
                                   at |-> now'])
                      /\ agents' =
                           [counted EXCEPT ![a] =
                              OnRestartReturned(failed, restartAgent(run).result,
                                                now')]
                      /\ events' = [events EXCEPT ![a] = @ \o <<"U", "R">>]
                 ELSE /\ agents' = [counted EXCEPT ![a] = failed]
                      /\ events' = [events EXCEPT ![a] = Append(@, "U")]
                      /\ UNCHANGED <<totalRestarts, invocations>>
  /\ UNCHANGED <<mode, mainpc, timerActive, nextTick, handlersOn, started,
                 totalChecks, cyc, sig, disk, flightAtSignal, config, audit,
                 fmt, limits, long>>

\* The restart decision on its own: checks of one agent applied one after the
\* other at chosen instants.
NextChecks ==
  \E a \in AgentNames, res \in ExecResults, run \in RestartRuns, dt \in Spacings :
    AgentCheck(a, res, run, dt)

SpecChecks == Init /\ [][NextChecks]_vars

\* CONFIG's limits as shipped and as edited (README, Configuration) to restart
\* at the first failure or the second, with a cooldown of two thirds of the
\* interval, of one millisecond less than the interval, or of more than the
\* interval.
Limits ==
  { ShippedLimits,
    [ShippedLimits EXCEPT !.maxFailures = 1,
                          !.restartCooldown = 2 * RestartCooldown],
    [ShippedLimits EXCEPT !.maxFailures = 2,
                          !.restartCooldown = HealthCheckInterval - 1],
    [ShippedLimits EXCEPT !.maxFailures = 2,
                          !.restartCooldown = 4 * RestartCooldown] }

\* L126-130 for the limits lim.
CooldownElapsedFor(rec, t, lim) ==
  \/ rec.lastRestart = Null
  \/ t - GetTime(rec.lastRestart) > lim.restartCooldown

\* Variant of DecisionFor that compares the elapsed seconds with the cooldown.
DecisionForElapsedInSeconds(rec, t, lim) ==
  IF rec.consecutiveFailures < lim.maxFailures THEN "NoAction"
  ELSE IF \/ rec.lastRestart = Null
          \/ (t - GetTime(rec.lastRestart)) \div 1000 > lim.restartCooldown
       THEN "Restart"
       ELSE "SkipCooldown"

\* L125-131 for the limits lim: the branch an unhealthy check takes once its
\* failure is counted.
DecisionFor(rec, t, lim) ==
  IF rec.consecutiveFailures < lim.maxFailures THEN "NoAction"
  ELSE IF CooldownElapsedFor(rec, t, lim) THEN "Restart"
  ELSE "SkipCooldown"

\* How long after a cycle's start its agent check is decided, and how long
\* restartAgent then takes: no time, or one millisecond short of an interval.
Lags == {0, limits.healthCheckInterval - 1}

\* The runs of restartAgent that differ in its result (the bookkeeping that
\* follows looks at nothing else): the gateway is found and the restart
\* command resolves or rejects.
RestartOutcomes == {run \in RestartRuns : run.gatewayUp}

\* L79-158 for one agent, as a call of runHealthCheck that has returned
\* before the next tick (L308): the cycle starts at the tick (the initial one
\* at process start), the probe ends with res and its result is recorded
\* `wait` ms later, and when the restart is decided restartAgent runs as
\* `run` and returns `dur` ms after that; the cycle is over before one
\* interval has passed.  setInterval is called when the initial cycle has
\* returned (L302-308).  Each check is added to `decided` with the start of
\* its cycle, its result, the count it reached and its branch.
SerialCycle(a, res, run, wait, dur) ==
  /\ mode = "running" /\ Len(decided) < MaxChecks
  /\ wait + dur < limits.healthCheckInterval
  /\ LET begin   == IF timerActive THEN nextTick ELSE now
         counted == [initAgentState(agents, a) EXCEPT ![a].totalChecks = @ + 1]
         health  == checkAgentHealth(res)
         failed  == RecordUnhealthy(counted[a])
         branch  == DecisionFor(failed, begin + wait, limits)
         end     == IF ~health.healthy /\ branch = "Restart"
                    THEN begin + wait + dur ELSE begin + wait
     IN  /\ now' = end
         /\ timerActive' = TRUE
         /\ nextTick' = IF timerActive
                        THEN nextTick + limits.healthCheckInterval
                        ELSE end + limits.healthCheckInterval
         /\ started' = started + 1
         /\ totalChecks' = totalChecks + 1
         /\ IF health.healthy
            THEN /\ dur = 0
                 /\ agents' = [counted EXCEPT ![a] = RecordHealthy(@)]
                 /\ events' = [events EXCEPT ![a] = Append(@, "H")]
                 /\ decided' = Append(decided,
                                      [at |-> begin, healthy |-> TRUE,
                                       failures |-> 0, decision |-> "NoAction"])
                 /\ UNCHANGED <<totalRestarts, invocations>>
            ELSE /\ decided' = Append(decided,
                                      [at |-> begin, healthy |-> FALSE,
                                       failures |-> failed.consecutiveFailures,
                                       decision |-> branch])
                 /\ IF branch = "Restart"
                    THEN /\ totalRestarts' = totalRestarts + 1
                         /\ invocations' =
                              Append(invocations,
                                     [agent |-> a, cycle |-> started + 1,
                                      at |-> begin + wait])
                         /\ agents' =
                              [counted EXCEPT ![a] =
                                 OnRestartReturned(failed,
                                                   restartAgent(run).result, end)]
                         /\ events' = [events EXCEPT ![a] = @ \o <<"U", "R">>]
                    ELSE /\ dur = 0
                         /\ agents' = [counted EXCEPT ![a] = failed]
                         /\ events' = [events EXCEPT ![a] = Append(@, "U")]
                         /\ UNCHANGED <<totalRestarts, invocations>>
  /\ UNCHANGED <<mode, mainpc, handlersOn, cyc, sig, disk, flightAtSignal,
                 config, audit, fmt, limits, long>>

\* The daemon whose cycles never overlap, for each of the limits.
InitSerial ==
  \E lim \in Limits : Start(ConfiguredAgents, 0, <<>>, lim, NoRun)

NextSerial ==
  \E a \in AgentNames, res \in ExecResults, run \in RestartOutcomes,
     wait \in Lags, dur \in Lags :
    SerialCycle(a, res, run, wait, dur)

SpecSerial == InitSerial /\ [][NextSerial]_vars

\* L79-158 over a long run.  A call of runHealthCheck is reduced to the awaits
\* at which state.totalChecks, state.performance.history and state.repos are
\* read or written: "perf" (L83-86: the debug line and getSystemPerformance),
\* "health" (L92-142: alerts, gateway and agents), "repos" (L146:
\* getAllRepoStatuses) and "activity" (L153-157: getAgentActivity and
\* saveState).  `long` holds the kind of run (its number of cycles, and
\* whether ticks arrive while a cycle is in progress), the calls in progress
\* and their positions, the performance history (each sample named by the
\* cycle that took it) and the cycles that refreshed the repositories.
LongRuns ==
  { [limit |-> MaxBusyCycles, overlap |-> TRUE],
    [limit |-> MaxQuietCycles, overlap |-> FALSE] }

NewRun(kind) ==
  [limit |-> kind.limit, overlap |-> kind.overlap, flight |-> <<>>,
   history |-> <<>>, refreshed |-> {}]

Flying == IF long = NoRun THEN {} ELSE DOMAIN long.flight

\* L80-83: runHealthCheck is called, by main (L302) or, once the initial call
\* has returned and setInterval has been called (L308), by the timer.
RunBegin ==
  /\ mode = "running" /\ long # NoRun
  /\ started < long.limit
  /\ Cardinality(Flying) < MaxInFlight
  /\ started > 0 => 1 \notin Flying
  /\ long.overlap \/ Flying = {}
  /\ started' = started + 1
  /\ totalChecks' = totalChecks + 1
  /\ long' = [long EXCEPT !.flight = ((started + 1) :> "perf") @@ @]
  /\ UNCHANGED <<now, mode, mainpc, timerActive, nextTick, handlersOn,
                 totalRestarts, agents, cyc, sig, disk, invocations, events,
                 flightAtSignal, config, audit, fmt, decided, limits>>

\* L87-90: the sample is pushed and, when the history has grown beyond
\* maxHistory, shift() removes its first element.
Push(history, perf) ==
  IF Len(history) + 1 > MaxHistory
  THEN Tail(Append(history, perf))
  ELSE Append(history, perf)

\* L86-90: getSystemPerformance has returned to cycle c and its sample is
\* stored.
RunPerfDone(c) ==
  /\ mode = "running" /\ c \in Flying /\ long.flight[c] = "perf"
  /\ long' = [long EXCEPT !.history = Push(@, c), !.flight[c] = "health"]
  /\ UNCHANGED <<now, mode, mainpc, timerActive, nextTick, handlersOn, started,
                 totalChecks, totalRestarts, agents, cyc, sig, disk,
                 invocations, events, flightAtSignal, config, audit, fmt,
                 decided, limits>>

\* L92-146: the gateway and the agents have been checked by cycle c; the
\* repositories are refreshed when state.totalChecks % 5 === 1.
RunHealthDone(c) ==
  /\ mode = "running" /\ c \in Flying /\ long.flight[c] = "health"
  /\ long' = IF RepoCycle(totalChecks)
             THEN [long EXCEPT !.flight[c] = "repos", !.refreshed = @ \cup {c}]
             ELSE [long EXCEPT !.flight[c] = "activity"]
  /\ UNCHANGED <<now, mode, mainpc, timerActive, nextTick, handlersOn, started,
                 totalChecks, totalRestarts, agents, cyc, sig, disk,
                 invocations, events, flightAtSignal, config, audit, fmt,
                 decided, limits>>

\* L146-153: getAllRepoStatuses has returned to cycle c.
RunReposDone(c) ==
  /\ mode = "running" /\ c \in Flying /\ long.flight[c] = "repos"
  /\ long' = [long EXCEPT !.flight[c] = "activity"]
  /\ UNCHANGED <<now, mode, mainpc, timerActive, nextTick, handlersOn, started,
                 totalChecks, totalRestarts, agents, cyc, sig, disk,
                 invocations, events, flightAtSignal, config, audit, fmt,
                 decided, limits>>

\* L153-158: getAgentActivity and saveState have ended and cycle c returns.
RunReturn(c) ==
  /\ mode = "running" /\ c \in Flying /\ long.flight[c] = "activity"
  /\ long' = [long EXCEPT
               !.flight = [d \in DOMAIN @ \ {c} |-> long.flight[d]]]
  /\ UNCHANGED <<now, mode, mainpc, timerActive, nextTick, handlersOn, started,
                 totalChecks, totalRestarts, agents, cyc, sig, disk,
                 invocations, events, flightAtSignal, config, audit, fmt,
                 decided, limits>>

\* The daemon over a long run, of either kind.
InitLong ==
  \E kind \in LongRuns :
    Start(ConfiguredAgents, 0, <<>>, ShippedLimits, NewRun(kind))

NextLong ==
  \/ RunBegin
  \/ \E c \in Flying : RunPerfDone(c)
  \/ \E c \in Flying : RunHealthDone(c)
  \/ \E c \in Flying : RunReposDone(c)
  \/ \E c \in Flying : RunReturn(c)

SpecLong == InitLong /\ [][NextLong]_vars

\* formatUptime is called once on a number of seconds (as getSystemPerformance
\* does with os.uptime() and getStatus with the daemon's own uptime).
FormatUptime(seconds) ==
  /\ fmt = NoFormat
  /\ fmt' = [seconds |-> seconds, text |-> formatUptime(seconds)]
  /\ UNCHANGED <<now, mode, mainpc, timerActive, nextTick, handlersOn, started,
                 totalChecks, totalRestarts, agents, cyc, sig, disk,
                 invocations, events, flightAtSignal, config, audit, decided,
                 limits, long>>

\* The numbers of seconds a call can still be made with.
UptimeInputs == IF fmt = NoFormat THEN 0..MaxUptime ELSE {}

NextFormat == \E seconds \in UptimeInputs : FormatUptime(seconds)

SpecFormat == Init /\ [][NextFormat]_vars

\* The daemon with a second agent configured, while no signal arrives.
InitTwo == Boot(TwoAgents, 0, <<>>)

SpecTwo == InitTwo /\ [][NextQuiet]_vars

\* The daemon on a host where the os calls of getSystemPerformance can fail.
NextExc ==
  \/ Next
  \/ \E c \in Cycles, crash \in BOOLEAN : PerfThrows(c, crash)
  \/ FatalLogged

SpecExc == Init /\ [][NextExc]_vars

(* ------------------------------- claims --------------------------------- *)

\* The agent a cycle is working on (defined while it is inside the loop).
AgentOf(c) == Agents[cyc[c].idx]

\* Number of "U" at the end of a history of results.
RECURSIVE TrailingUnhealthy(_)
TrailingUnhealthy(h) ==
  IF h = <<>> \/ h[Len(h)] # "U" THEN 0
  ELSE 1 + TrailingUnhealthy(SubSeq(h, 1, Len(h) - 1))

\* No healthy result has been recorded for agent a.
NeverHealthy(a) == \A i \in 1..Len(events[a]) : events[a][i] # "H"

\* C1: at most one call of runHealthCheck is in progress at any time.
C1_OneCycleAtATime == Cardinality({c \in Cycles : InFlight(c)}) <= 1

\* C2: any two calls of restartAgent for the same agent are more than
\* restartCooldown apart.
C2_RestartsSeparatedByCooldown ==
  \A i, j \in 1..Len(invocations) :
    (i < j /\ invocations[i].agent = invocations[j].agent)
      => invocations[j].at - invocations[i].at > RestartCooldown

\* C3: a check goes on to restartAgent if and only if its result was
\* unhealthy, the failure count its increment produced is at least maxFailures
\* and lastRestart is unset or more than restartCooldown old.
C3_RestartIffThresholdAndCooldown ==
  [][\A c \in Cycles :
       /\ (cyc'[c].pc = "announce" /\ cyc[c].pc # "announce")
            => cyc[c].pc = "decide"
       /\ (cyc[c].pc = "decide" /\ cyc'[c] # cyc[c])
            => ((cyc'[c].pc = "announce")
                  <=> (/\ cyc[c].failures >= MaxFailures
                       /\ CooldownElapsed(agents[AgentOf(c)], now)))]_vars

\* C4: a cycle whose gateway probe was unhealthy and whose start attempt
\* failed starts no agent probe and changes no agent counter.
C4_NoProbeWhenGatewayUnreachable ==
  [][\A c \in Cycles :
       (cyc[c].pc = "gwfailed" /\ cyc'[c] # cyc[c])
         => (cyc'[c].pc # "probe" /\ agents' = agents)]_vars

\* C5: consecutiveFailures is the number of unhealthy results recorded since
\* the last healthy result or the last returned restart, whichever is later.
C5_ConsecutiveFailuresCount ==
  \A a \in DOMAIN agents :
    agents[a].consecutiveFailures = TrailingUnhealthy(events[a])

\* C5 witness: two unhealthy results in a row after a healthy one.
C5_Witness ==
  /\ "main" \in DOMAIN agents
  /\ events["main"] = <<"H", "U", "U">>
  /\ agents["main"].consecutiveFailures = 2

\* C6: when restartAgent returns, with either result, consecutiveFailures is 0
\* and lastRestart is the current time.
C6_RestartReturnResets ==
  [][\A c \in Cycles :
       (cyc[c].pc = "restart" /\ cyc'[c].pc # "restart")
         => /\ agents'[AgentOf(c)].consecutiveFailures = 0
            /\ agents'[AgentOf(c)].lastRestart = ToISOString(now')]_vars

\* C6 witness: a restart has just returned false and the record is reset.
C6_Witness ==
  \E c \in Cycles :
    /\ cyc[c].restarted = "false"
    /\ agents["main"].consecutiveFailures = 0
    /\ agents["main"].lastRestart = ToISOString(now)

\* C7: while every result of agent "main" is unhealthy, no cycle before the
\* maxFailures-th calls restartAgent, and once the first maxFailures cycles
\* have returned exactly one restart has been made, by the maxFailures-th
\* cycle, and the count is back to 0.
C7_RestartOnThresholdCycle ==
  NeverHealthy("main") =>
    /\ \A i \in 1..Len(invocations) : invocations[i].cycle >= MaxFailures
    /\ (\A c \in 1..MaxFailures : cyc[c].pc = "done") =>
         /\ totalRestarts = 1
         /\ Len(invocations) = 1 /\ invocations[1].cycle = MaxFailures
         /\ agents["main"].consecutiveFailures = 0

\* C8: the process does not exit while a cycle that was in flight when the
\* signal arrived has not returned.
C8_ExitWaitsForCycle ==
  mode # "running" => \A c \in flightAtSignal : cyc[c].pc = "done"

\* C9: when the process has exited on a signal, the file holds the final
\* in-memory state.
C9_ExitAfterSave == mode # "running" => disk = <<Snapshot>>

\* C10: once a signal has been received no call of runHealthCheck is started.
C10_NoCycleAfterSignal ==
  [][(\E s \in Signals : sig[s].pc # "idle") => started' = started]_vars

\* C11: an exception raised inside a cycle never ends the process and never
\* stops the scheduler: the process ends only on a shutdown signal, and main()
\* is never in its fatal-error handler.
C11_ExceptionNeverEndsProcess ==
  /\ mode \in {"running", "exit0", "killed"}
  /\ mainpc # "fatal"

\* C12: a timer tick that arrives while a call of runHealthCheck is in
\* progress is dropped: no call of runHealthCheck is started while another is
\* in progress.
C12_BusyTickStartsNoCycle ==
  [][(\E c \in Cycles : InFlight(c)) => started' = started]_vars

\* The last command a cycle with locals loc has run.
LastCall(loc) == loc.calls[Len(loc.calls)]

\* How many times a cycle with locals loc has run the probe of agent a.
ProbesOf(loc, a) ==
  Cardinality({i \in DOMAIN loc.calls :
                 loc.calls[i].cmd = "openclaw status" /\ loc.calls[i].agent = a})

\* C13: a probe whose command fails (cannot be run, non-zero exit, timeout)
\* raises nothing and gives an unhealthy result: after a failed gateway probe
\* the cycle goes on to the gateway start, after a failed agent probe the
\* process is still running, the cycle has recorded exactly one unhealthy
\* result for the agent and it has probed the agent once.
C13_FailedProbeIsUnhealthy ==
  [][\A c \in Cycles :
       (audit = c /\ cyc'[c] # cyc[c] /\ cyc'[c].calls # <<>>
          /\ LastCall(cyc'[c]).status = "failed")
         => /\ cyc[c].pc = "gateway" => cyc'[c].pc = "startgw"
            /\ cyc[c].pc = "probe" =>
                 /\ mode' = "running"
                 /\ cyc'[c].pc = "decide"
                 /\ agents'[AgentOf(c)] = RecordUnhealthy(agents[AgentOf(c)])
                 /\ ProbesOf(cyc'[c], AgentOf(c)) = 1]_vars

\* C13 witness: the probe of "main" timed out or failed otherwise, and the
\* cycle is at its failure log line with one failure counted.
C13_Witness ==
  \E c \in Cycles :
    /\ audit = c /\ cyc[c].pc = "decide"
    /\ LastCall(cyc[c]) = Call("openclaw status", "main", "failed")
    /\ cyc[c].failures = 1
    /\ agents["main"].totalFailures = 1

\* C14: a step in which saveState ends (written or failed) or loadState ends
\* (read or failed) changes no agent record, no counter and no restart
\* history, and does not end the process; the file is the only thing a save
\* changes (to the snapshot it was writing), and a failed save changes nothing
\* at all.
C14_PersistenceLeavesStateAlone ==
  [][/\ \A c \in Cycles :
          (cyc[c].pc = "save" /\ cyc'[c].pc # "save")
            => /\ <<agents, totalChecks, totalRestarts, invocations, events, mode>>'
                    = <<agents, totalChecks, totalRestarts, invocations, events, mode>>
               /\ disk' \in {disk, cyc[c].write}
     /\ (mainpc = "load" /\ mainpc' # "load")
          => <<agents, totalRestarts, invocations, events, mode, disk>>'
               = <<agents, totalRestarts, invocations, events, mode, disk>>]_vars

\* C14 witness: the write of the second cycle failed after a check was
\* counted (the file still holds what the first cycle wrote), and the daemon
\* is running with its state intact.
C14_Witness ==
  /\ mode = "running"
  /\ cyc[1].pc = "done" /\ cyc[2].pc = "done" /\ cyc[3].pc = "idle"
  /\ disk # <<>> /\ disk # <<PriorSnapshot>> /\ disk # <<Snapshot>>
  /\ totalChecks = 2
  /\ "main" \in DOMAIN agents /\ agents["main"].totalChecks = 2

\* How many gateway start or gateway restart commands a cycle with locals loc
\* has run.
GatewayCommands(loc) ==
  Cardinality({i \in DOMAIN loc.calls :
                 loc.calls[i].cmd \in {"openclaw gateway start",
                                       "openclaw gateway restart"}})

\* C15: a cycle runs at most one gateway start or gateway restart command in
\* total, the start after an unhealthy gateway probe and everything
\* restartAgent runs included.
C15_AtMostOneGatewayCommand ==
  \A c \in Cycles : audit = c => GatewayCommands(cyc[c]) <= 1

\* C16: for a whole number of seconds, formatUptime gives "<d>d <h>h <m>m"
\* when d >= 1, "<h>h <m>m" when d = 0 and h >= 1, and "<m>m" otherwise, where
\* d = seconds div 86400, h = (seconds mod 86400) div 3600 and
\* m = (seconds mod 3600) div 60; 3661 gives "1h 1m", 0 gives "0m" and 90000
\* gives "1d 1h 0m".
C16_FormatUptime ==
  fmt # NoFormat =>
    LET d == fmt.seconds \div 86400
        h == (fmt.seconds % 86400) \div 3600
        m == (fmt.seconds % 3600) \div 60
    IN  /\ d >= 1 =>
             fmt.text = ToString(d) \o "d " \o ToString(h) \o "h "
                          \o ToString(m) \o "m"
        /\ (d = 0 /\ h >= 1) =>
             fmt.text = ToString(h) \o "h " \o ToString(m) \o "m"
        /\ (d = 0 /\ h = 0) => fmt.text = ToString(m) \o "m"
        /\ fmt.seconds = 3661 => fmt.text = "1h 1m"
        /\ fmt.seconds = 0 => fmt.text = "0m"
        /\ fmt.seconds = 90000 => fmt.text = "1d 1h 0m"

\* C16 witness: formatUptime has been applied to a day, an hour and no
\* minute.
C16_Witness == fmt # NoFormat /\ fmt.seconds = 90000 /\ fmt.text = "1d 1h 0m"

\* The checks applied one step each: the last check before check i that was
\* healthy or restarted the agent (0 when none), the last one that restarted
\* it (0 when none), and the number of unhealthy checks up to check i since
\* the former.
PrevReset(i) ==
  LET js == {j \in 1..(i - 1) :
               decided[j].healthy \/ decided[j].decision = "Restart"}
  IN  IF js = {} THEN 0 ELSE CHOOSE j \in js : \A k \in js : k <= j

PrevRestart(i) ==
  LET js == {j \in 1..(i - 1) : decided[j].decision = "Restart"}
  IN  IF js = {} THEN 0 ELSE CHOOSE j \in js : \A k \in js : k <= j

RunLength(i) == i - PrevReset(i)

\* Time between check i and the last restart before it.
SinceRestart(i) == decided[i].at - decided[PrevRestart(i)].at

\* C17 as stated: once the agent has been restarted and has been unhealthy
\* on every check since, a check at which more than restartCooldown has
\* elapsed since that restart restarts it again.
C17_RestartAtCooldownCadence ==
  \A i \in 1..Len(decided) :
    (/\ PrevRestart(i) > 0
     /\ \A k \in (PrevRestart(i) + 1)..i : ~decided[k].healthy
     /\ SinceRestart(i) > RestartCooldown)
      => decided[i].decision = "Restart"

\* C17 amended: an unhealthy check restarts the agent exactly when maxFailures
\* or more unhealthy checks have accumulated since the last healthy check or
\* restart and more than restartCooldown has elapsed since the last restart
\* (if any); elapsed cooldown alone does not restart it.
C17_RestartNeedsNewFailures ==
  \A i \in 1..Len(decided) :
    ~decided[i].healthy =>
      (decided[i].decision = "Restart"
         <=> /\ RunLength(i) >= MaxFailures
             /\ PrevRestart(i) = 0 \/ SinceRestart(i) > RestartCooldown)

\* C17 witness: restarted at the third check, the agent is unhealthy again
\* at the fifth, more than the cooldown later, and is not restarted.
C17_Witness ==
  /\ Len(decided) = 5
  /\ \A i \in 1..5 : ~decided[i].healthy
  /\ decided[3].decision = "Restart"
  /\ SinceRestart(5) > RestartCooldown
  /\ decided[5].decision = "NoAction"
  /\ totalRestarts = 1

\* C18: an unhealthy check that finds maxFailures or more failures
\* accumulated but no more than restartCooldown elapsed since the last
\* restart invokes no restart and leaves lastRestart and totalRestarts as they
\* were and the count at its incremented value; and the first later unhealthy
\* check at which more than restartCooldown has elapsed since that restart,
\* with no healthy check in between, restarts the agent.
C18_CooldownSkipThenRestart ==
  \A i \in 1..Len(decided) :
    (/\ ~decided[i].healthy
     /\ RunLength(i) >= MaxFailures
     /\ PrevRestart(i) > 0
     /\ SinceRestart(i) <= RestartCooldown)
      => /\ decided[i].decision = "SkipCooldown"
         /\ i = Len(decided) =>
              /\ agents["main"].consecutiveFailures = RunLength(i)
              /\ agents["main"].lastRestart
                   = ToISOString(decided[PrevRestart(i)].at)
              /\ totalRestarts
                   = Cardinality({j \in 1..(i - 1) :
                                    decided[j].decision = "Restart"})
              /\ Len(invocations) = totalRestarts
         /\ \A k \in (i + 1)..Len(decided) :
              (/\ \A m \in (i + 1)..k : ~decided[m].healthy
               /\ decided[k].at - decided[PrevRestart(i)].at > RestartCooldown
               /\ \A m \in (i + 1)..(k - 1) :
                    decided[m].at - decided[PrevRestart(i)].at <= RestartCooldown)
                => decided[k].decision = "Restart"

\* C18 witness: restarted at the third check, the agent fails three more
\* checks inside the cooldown, the sixth being skipped, and is restarted by
\* the seventh, after the cooldown.
C18_Witness ==
  /\ Len(decided) = 7
  /\ decided[3].decision = "Restart"
  /\ decided[6].decision = "SkipCooldown"
  /\ decided[7].decision = "Restart"
  /\ totalRestarts = 2

\* The first n checks were all unhealthy and 2000 ms apart.
Scenario(n) ==
  /\ Len(decided) >= n
  /\ \A k \in 1..n : ~decided[k].healthy /\ decided[k].at = k * ShortSpacing

\* C19 as stated: with four unhealthy checks 2000 ms apart, the third
\* restarts the agent and the fourth is a cooldown skip that restarts nothing
\* and leaves the count at 1.
C19_FourthCheckIsCooldownSkip ==
  Scenario(4) =>
    /\ decided[3].decision = "Restart"
    /\ decided[4].decision = "SkipCooldown"
    /\ Len(decided) = 4 =>
         totalRestarts = 1 /\ agents["main"].consecutiveFailures = 1

\* C19 amended: with four unhealthy checks 2000 ms apart, the third restarts
\* the agent and the fourth restarts nothing and leaves the count at 1,
\* because that count is under the threshold: the cooldown is not consulted.
C19_FourthCheckIsUnderThreshold ==
  Scenario(4) =>
    /\ decided[1].decision = "NoAction" /\ decided[2].decision = "NoAction"
    /\ decided[3].decision = "Restart"
    /\ decided[4].decision = "NoAction"
    /\ Len(decided) = 4 =>
         totalRestarts = 1 /\ agents["main"].consecutiveFailures = 1

\* C19 witness: the four checks of the scenario have been applied.
C19_Witness ==
  /\ Scenario(4) /\ Len(decided) = 4
  /\ agents["main"].lastRestart = ToISOString(3 * ShortSpacing)

ReturnedRestarts ==
  Cardinality(UNION {{<<a, i>> : i \in {j \in DOMAIN events[a] : events[a][j] = "R"}} :
                       a \in AgentNames})

\* C21: totalRestarts counts only the restarts whose restartAgent call has
\* returned, in memory and in every snapshot a shutdown handler is writing:
\* it is never ahead of the number of returned restarts.
C21_RestartCountedOnReturn ==
  /\ totalRestarts = ReturnedRestarts
  /\ \A s \in Signals :
       sig[s].pc = "save" => sig[s].write[1].totalRestarts <= ReturnedRestarts

\* C22: for every agent, consecutiveFailures is a non-negative integer that
\* does not exceed totalFailures, and totalFailures does not exceed
\* totalChecks.
C22_FailureCountsOrdered ==
  \A a \in DOMAIN agents :
    /\ agents[a].consecutiveFailures \in Nat
    /\ agents[a].consecutiveFailures <= agents[a].totalFailures
    /\ agents[a].totalFailures <= agents[a].totalChecks

\* C22 witness: "main" failed, recovered and failed again: a run of 1 among
\* 2 failures in 3 checks.
C22_Witness ==
  /\ "main" \in DOMAIN agents
  /\ agents["main"].consecutiveFailures = 1
  /\ agents["main"].totalFailures = 2
  /\ agents["main"].totalChecks = 3

\* C23: every step leaves each of the process-wide totalChecks and
\* totalRestarts and each agent's totalChecks and totalFailures unchanged or
\* increases it by exactly 1, and an agent's record, once created, is never
\* deleted or re-initialised (a record is created with its first check
\* counted).
C23_CountersOnlyGrowByOne ==
  [][/\ totalChecks' \in {totalChecks, totalChecks + 1}
     /\ totalRestarts' \in {totalRestarts, totalRestarts + 1}
     /\ DOMAIN agents \subseteq DOMAIN agents'
     /\ \A a \in DOMAIN agents :
          /\ agents'[a].totalChecks
               \in {agents[a].totalChecks, agents[a].totalChecks + 1}
          /\ agents'[a].totalFailures
               \in {agents[a].totalFailures, agents[a].totalFailures + 1}
          /\ agents'[a] # NewAgent
     /\ \A a \in DOMAIN agents' \ DOMAIN agents :
          agents'[a] = [NewAgent EXCEPT !.totalChecks = 1]]_vars

\* C23 witness: three cycles have been counted, "main" has failed all three
\* of its checks and has been restarted once.
C23_Witness ==
  /\ totalChecks = 3 /\ totalRestarts = 1
  /\ "main" \in DOMAIN agents
  /\ agents["main"].totalChecks = 3
  /\ agents["main"].totalFailures = 3
  /\ agents["main"].lastRestart # Null

\* C24: the step in which loadState ends leaves the in-memory state as it was
\* constructed whatever the state file holds (a snapshot, cut-off content or
\* no file): no agent record, totalRestarts 0 and, the initial cycle starting
\* in the same step, check number 1 counted from 0; the file is not changed.
\* So the initial cycle counts the first check and the first failure of
\* "main" from 0, with lastRestart unset, and never restarts it.
C24_LoadLeavesStateAlone ==
  [][/\ (mainpc = "load" /\ mainpc' # "load")
          => /\ agents' = <<>>
             /\ totalRestarts' = 0
             /\ totalChecks' = 1
             /\ disk' = disk
     /\ (cyc[1].pc = "probe" /\ cyc'[1].pc # "probe")
          => /\ agents'["main"].totalChecks = 1
             /\ agents'["main"].totalFailures
                  = agents'["main"].consecutiveFailures
             /\ agents'["main"].consecutiveFailures <= 1
             /\ agents'["main"].lastRestart = Null
     /\ cyc[1].pc = "decide" => cyc'[1].pc # "announce"]_vars

\* C24 witness: the previous run left a snapshot with two failures of "main"
\* counted; the first check of this run has failed and its count is 1.
C24_Witness ==
  /\ disk = <<PriorSnapshot>> /\ Parses(disk)
  /\ cyc[1].pc = "decide"
  /\ agents["main"].consecutiveFailures = 1
  /\ totalChecks = 1

\* C25: a cycle returns only from its saveState, which it calls once, after
\* the activity step; the snapshot saveState builds holds the in-memory
\* totalChecks and totalRestarts and every agent's consecutiveFailures and
\* lastRestart of that moment, and when the write ends the file holds either
\* that snapshot (in place of the previous one) or, the write having failed,
\* what it held before.
C25_CycleEndsWithSave ==
  [][\A c \in Cycles :
       /\ (cyc'[c].pc = "save" /\ cyc[c].pc # "save")
            => /\ cyc[c].pc = "activity"
               /\ Len(cyc'[c].write) = 1
               /\ cyc'[c].write[1].totalChecks = totalChecks
               /\ cyc'[c].write[1].totalRestarts = totalRestarts
               /\ DOMAIN cyc'[c].write[1].agents = DOMAIN agents
               /\ \A a \in DOMAIN agents :
                    /\ cyc'[c].write[1].agents[a].consecutiveFailures
                         = agents[a].consecutiveFailures
                    /\ cyc'[c].write[1].agents[a].lastRestart
                         = agents[a].lastRestart
       /\ (cyc'[c].pc = "done" /\ cyc[c].pc # "done")
            => /\ cyc[c].pc = "save"
               /\ disk' \in {disk, cyc[c].write}]_vars

\* C25 witness: the second cycle has returned and the file holds what it
\* saved: two checks, and two failures in a row for "main".
C25_Witness ==
  /\ cyc[2].pc = "done" /\ cyc[3].pc = "idle"
  /\ disk # <<>>
  /\ disk[1].totalChecks = 2 /\ totalChecks = 2
  /\ disk[1].totalRestarts = totalRestarts
  /\ disk[1].agents["main"].consecutiveFailures = 2
  /\ agents["main"].consecutiveFailures = 2

\* C27: under any interleaving of cycles, totalRestarts is the number of
\* restartAgent calls started so far over all agents, and an agent's
\* lastRestart is set only if a restartAgent call for it has returned.
C27_RestartsCountInvocations ==
  /\ totalRestarts = Len(invocations)
  /\ \A a \in DOMAIN agents :
       agents[a].lastRestart # Null
         => \E i \in DOMAIN events[a] : events[a][i] = "R"

\* C27 witness: two overlapping cycles have both called restartAgent for
\* "main" and neither call has returned.
C27_Witness ==
  /\ cyc[2].pc = "restart" /\ cyc[3].pc = "restart"
  /\ totalRestarts = 2 /\ Len(invocations) = 2
  /\ agents["main"].lastRestart = Null

\* C26 as stated: when cycles do not overlap and maxFailures *
\* healthCheckInterval > restartCooldown, every unhealthy check that brings
\* the count to maxFailures restarts the agent in that same check, and the
\* count never exceeds maxFailures.
C26_CooldownNeverSuppresses ==
  limits.maxFailures * limits.healthCheckInterval > limits.restartCooldown =>
    \A i \in 1..Len(decided) :
      /\ decided[i].failures <= limits.maxFailures
      /\ decided[i].failures >= limits.maxFailures
           => decided[i].decision = "Restart"

\* C26 amended: the same when (maxFailures - 1) * healthCheckInterval >
\* restartCooldown (true for the limits as shipped): at least maxFailures - 1
\* whole intervals then lie between a restart's return and the next check
\* that reaches the threshold.
C26_CooldownNeverSuppressesSpaced ==
  (limits.maxFailures - 1) * limits.healthCheckInterval > limits.restartCooldown =>
    \A i \in 1..Len(decided) :
      /\ decided[i].failures <= limits.maxFailures
      /\ decided[i].failures >= limits.maxFailures
           => decided[i].decision = "Restart"

\* C26 witness: with the limits as shipped, "main" fails six checks in a row
\* and is restarted by the third and, the cooldown being consulted with
\* lastRestart set, by the sixth.
C26_Witness ==
  /\ limits = ShippedLimits
  /\ Len(decided) = 6
  /\ \A i \in 1..6 : ~decided[i].healthy
  /\ decided[3].decision = "Restart" /\ decided[6].decision = "Restart"
  /\ decided[6].failures = MaxFailures
  /\ totalRestarts = 2

\* Cycle c of a long run has made its repository test; it has stored its
\* performance sample.
Tested(c) == c \notin Flying \/ long.flight[c] \in {"repos", "activity"}

Sampled(c) == c \notin Flying \/ long.flight[c] # "perf"

\* C28: the repositories are refreshed by exactly the cycles numbered 1, 6,
\* 11, ...: a cycle that has made its repository test has refreshed them if
\* and only if its own number is 1 modulo 5, whatever ticks arrived meanwhile.
C28_ReposOnOwnCycleNumber ==
  long # NoRun =>
    \A c \in 1..started : Tested(c) => (c \in long.refreshed <=> c % 5 = 1)

\* C29: the performance history never holds more than maxHistory samples; it
\* holds one sample of each cycle that has stored one, the oldest ones
\* removed, in the order of the cycles; and once the most recently started
\* cycle has stored its sample, that sample is the last element.
C29_HistoryBoundedFifo ==
  long # NoRun =>
    LET h == long.history
        n == Cardinality({c \in 1..started : Sampled(c)})
    IN  /\ Len(h) <= MaxHistory
        /\ Len(h) = IF n <= MaxHistory THEN n ELSE MaxHistory
        /\ \A i \in 1..(Len(h) - 1) : h[i] < h[i + 1]
        /\ (started > 0 /\ Sampled(started)) => h[Len(h)] = started

====
